---- MODULE Spec2Model ----
(***************************************************************************)
(* Session-state coordination of the SpeechToText component (src/App.js):  *)
(* the recognition session and its transcript accumulation, and the        *)
(* MicrophoneVisualizer's capture / redraw lifecycle.  The visualizer is   *)
(* modelled as rendered by SpeechToText with the prop isListening, as on   *)
(* App.js:606-607.  The speech engine, getUserMedia and                    *)
(* requestAnimationFrame are the environment.                              *)
(***************************************************************************)
EXTENDS Integers, Sequences, FiniteSets, TLC

VARIABLES
    mounted,        \* SpeechToText (and its child visualizer) is mounted
    isListening,    \* useState(false)                       App.js:426
    text,           \* useState("")                          App.js:427
    interimText,    \* useState("")                          App.js:428
    error,          \* useState("")                          App.js:429
    language,       \* useState("en-US")                     App.js:432
    recognitionRef, \* useRef(null): the recognition handle  App.js:434
    supported,      \* window.SpeechRecognition || webkitSpeechRecognition exists
    eng,            \* the engine's session: idle, starting, running, stopping,
                    \* cancelled
    lastEvent,      \* last of onstart / onend the engine has fired
    failure,        \* a handler has thrown an unhandled exception
    event,          \* the SpeechRecognitionEvent last delivered to onresult
    viz,            \* the visualizer's refs and the browser resources they name
    download,       \* the file the last step handed to the browser, if any
    last            \* the handler that made the last step

vars == <<mounted, isListening, text, interimText, error, language,
          recognitionRef, supported, eng, lastEvent, failure, event, viz,
          download, last>>

-----------------------------------------------------------------------------
(* Bounds *)

MaxResults == 2     \* longest event.results list the engine delivers
MaxTextLen == 12    \* OnResult is not delivered once text would outgrow this
MaxPending == 2     \* getUserMedia requests pending at once
MaxStreams == 2     \* media streams with live tracks at once
MaxFrames == 2      \* requestAnimationFrame callbacks scheduled at once

-----------------------------------------------------------------------------
(* Data *)

Transcripts == {"hello", "hello world", "foo"}

Languages == {"en-US", "es-ES"}

ErrorCodes == {"no-speech", "not-allowed"}

UnsupportedMessage == "Your browser does not support Speech Recognition."

ErrorMessage(code) ==
    "Error occurred: " \o code
        \o ". \n           Please check your microphone permissions."

NoHandle == [held |-> FALSE, lang |-> ""]

NoDownload == [made |-> FALSE, name |-> "", content |-> ""]

NoEvent == [resultIndex |-> 0, results |-> <<>>]

Results == [transcript : Transcripts, isFinal : BOOLEAN]

ResultLists == UNION {[1..k -> Results] : k \in 1..MaxResults}

Events ==
    {[resultIndex |-> ri, results |-> rs] :
        ri \in 0..(MaxResults - 1), rs \in ResultLists}

\* The events drawn while the whole system runs: one result, one transcript.
SessionEvents ==
    {e \in Events : Len(e.results) = 1 /\ e.results[1].transcript = "hello"}

InitViz ==
    [streamRef |-> 0, animationIdRef |-> 0, analyserReady |-> FALSE,
     pending |-> 0, liveStreams |-> {}, pendingFrames |-> {}]

-----------------------------------------------------------------------------
(* MicrophoneVisualizer *)

FreshId(used) == CHOOSE n \in 1..(Cardinality(used) + 1) : n \notin used

\* draw(): returns unless the canvas and the analyser exist, else schedules
\* the next frame and records its id.
draw(v, canvas) ==
    IF ~canvas \/ ~v.analyserReady
    THEN v
    ELSE LET id == FreshId(v.pendingFrames)
         IN  [v EXCEPT !.animationIdRef = id,
                       !.pendingFrames = @ \cup {id}]

\* startVisualizer() up to its await: the permission request is issued.
startVisualizer(v) == [v EXCEPT !.pending = @ + 1]

\* stopVisualizer that stops the tracks but keeps the stream reference.
stopVisualizer_KeepsStream(v) ==
    LET v1 == IF v.animationIdRef # 0
              THEN [v EXCEPT !.pendingFrames = @ \ {v.animationIdRef},
                             !.animationIdRef = 0]
              ELSE v
    IN  IF v1.streamRef # 0
        THEN [v1 EXCEPT !.liveStreams = @ \ {v1.streamRef}]
        ELSE v1

stopVisualizer(v) ==
    LET v1 == IF v.animationIdRef # 0
              THEN [v EXCEPT !.pendingFrames = @ \ {v.animationIdRef},
                             !.animationIdRef = 0]
              ELSE v
    IN  IF v1.streamRef # 0
        THEN [v1 EXCEPT !.liveStreams = @ \ {v1.streamRef},
                        !.streamRef = 0]
        ELSE v1

\* useEffect(..., [isListening]): when the prop changes, the previous
\* effect's cleanup runs and then the effect body.
VisualizerEffect(v, old, new) ==
    IF old = new
    THEN v
    ELSE IF new
         THEN startVisualizer(stopVisualizer(v))
         ELSE stopVisualizer(stopVisualizer(v))

-----------------------------------------------------------------------------
(* recognition.onresult *)

\* The loop with the isFinal test inverted.
RECURSIVE ResultLoop_Inverted(_, _, _, _)
ResultLoop_Inverted(i, results, finalTranscript, interimTranscript) ==
    IF i > Len(results)
    THEN [final |-> finalTranscript, interim |-> interimTranscript]
    ELSE IF ~results[i].isFinal
         THEN ResultLoop_Inverted(i + 1, results,
                                  finalTranscript \o results[i].transcript,
                                  interimTranscript)
         ELSE ResultLoop_Inverted(i + 1, results, finalTranscript,
                                  interimTranscript \o results[i].transcript)

RECURSIVE ResultLoop(_, _, _, _)
ResultLoop(i, results, finalTranscript, interimTranscript) ==
    IF i > Len(results)
    THEN [final |-> finalTranscript, interim |-> interimTranscript]
    ELSE IF results[i].isFinal
         THEN ResultLoop(i + 1, results,
                         finalTranscript \o results[i].transcript,
                         interimTranscript)
         ELSE ResultLoop(i + 1, results, finalTranscript,
                         interimTranscript \o results[i].transcript)

\* The loop started at the first result instead of at event.resultIndex.
onresult_FromFirst(e) == ResultLoop(1, e.results, "", "")

\* The for loop of onresult; results are 1-based here, so index
\* event.resultIndex of the source is resultIndex + 1.
onresult(e) == ResultLoop(e.resultIndex + 1, e.results, "", "")

-----------------------------------------------------------------------------

Init ==
    /\ mounted = TRUE
    /\ isListening = FALSE
    /\ text = ""
    /\ interimText = ""
    /\ error = ""
    /\ language = "en-US"
    /\ recognitionRef = NoHandle
    /\ supported \in BOOLEAN
    /\ eng = "idle"
    /\ lastEvent = "none"
    /\ failure = FALSE
    /\ event = NoEvent
    /\ viz = stopVisualizer(InitViz)
    /\ download = NoDownload
    /\ last = "mount"

-----------------------------------------------------------------------------
(* User commands *)

\* startListening whose initializeRecognition does not test for a held
\* handle and constructs a new one on every call.
StartListening_AlwaysCreates ==
    /\ mounted
    /\ last' = "StartListening"
    /\ download' = NoDownload
    /\ IF ~supported
       THEN /\ error' = UnsupportedMessage
            /\ UNCHANGED <<recognitionRef, eng, failure>>
       ELSE /\ recognitionRef' = [held |-> TRUE, lang |-> language]
            /\ IF eng = "idle"
               THEN eng' = "starting" /\ UNCHANGED failure
               ELSE failure' = TRUE /\ UNCHANGED eng
            /\ UNCHANGED error
    /\ UNCHANGED <<mounted, isListening, text, interimText, language,
                   supported, lastEvent, event, viz>>

\* startListening whose initializeRecognition lacks the early return on an
\* unsupported host and goes on to record a handle.
StartListening_NoReturn ==
    /\ mounted
    /\ last' = "StartListening"
    /\ download' = NoDownload
    /\ error' = IF ~recognitionRef.held /\ ~supported
                THEN UnsupportedMessage
                ELSE error
    /\ recognitionRef' = IF recognitionRef.held
                         THEN recognitionRef
                         ELSE [held |-> TRUE, lang |-> language]
    /\ IF eng = "idle"
       THEN eng' = "starting" /\ UNCHANGED failure
       ELSE failure' = TRUE /\ UNCHANGED eng
    /\ UNCHANGED <<mounted, isListening, text, interimText, language,
                   supported, lastEvent, event, viz>>

\* startListening: initializeRecognition(), then start() on the handle.
\* start() on a handle whose session has not ended throws InvalidStateError.
StartListening ==
    /\ mounted
    /\ last' = "StartListening"
    /\ download' = NoDownload
    /\ IF ~recognitionRef.held /\ ~supported
       THEN /\ error' = UnsupportedMessage
            /\ UNCHANGED <<recognitionRef, eng, failure>>
       ELSE /\ recognitionRef' = IF recognitionRef.held
                                 THEN recognitionRef
                                 ELSE [held |-> TRUE, lang |-> language]
            /\ IF eng = "idle"
               THEN eng' = "starting" /\ UNCHANGED failure
               ELSE failure' = TRUE /\ UNCHANGED eng
            /\ UNCHANGED error
    /\ UNCHANGED <<mounted, isListening, text, interimText, language,
                   supported, lastEvent, event, viz>>

\* recognition.stop(): a running session goes on to deliver what it has and
\* end; one that has not fired onstart yet is cancelled and only ends;
\* otherwise nothing.
EngineStop(e) ==
    CASE e = "running" -> "stopping"
      [] e = "starting" -> "cancelled"
      [] OTHER -> e

\* stopListening without the test of recognitionRef.current: stop() on a
\* null handle throws.
StopListening_NoGuard ==
    /\ mounted
    /\ last' = "StopListening"
    /\ download' = NoDownload
    /\ eng' = EngineStop(eng)
    /\ failure' = (failure \/ ~recognitionRef.held)
    /\ isListening' = FALSE
    /\ interimText' = ""
    /\ viz' = VisualizerEffect(viz, isListening, FALSE)
    /\ UNCHANGED <<mounted, text, error, language, recognitionRef, supported,
                   lastEvent, event>>

StopListening ==
    /\ mounted
    /\ last' = "StopListening"
    /\ download' = NoDownload
    /\ eng' = IF recognitionRef.held THEN EngineStop(eng) ELSE eng
    /\ isListening' = FALSE
    /\ interimText' = ""
    /\ viz' = VisualizerEffect(viz, isListening, FALSE)
    /\ UNCHANGED <<mounted, text, error, language, recognitionRef, supported,
                   lastEvent, failure, event>>

\* handleClear that also stops the session.
HandleClear_Stops ==
    /\ mounted
    /\ last' = "HandleClear"
    /\ download' = NoDownload
    /\ text' = ""
    /\ interimText' = ""
    /\ error' = ""
    /\ eng' = IF recognitionRef.held THEN EngineStop(eng) ELSE eng
    /\ isListening' = FALSE
    /\ viz' = VisualizerEffect(viz, isListening, FALSE)
    /\ UNCHANGED <<mounted, language, recognitionRef, supported, lastEvent,
                   failure, event>>

HandleClear ==
    /\ mounted
    /\ last' = "HandleClear"
    /\ download' = NoDownload
    /\ text' = ""
    /\ interimText' = ""
    /\ error' = ""
    /\ UNCHANGED <<mounted, isListening, language, recognitionRef, supported,
                   eng, lastEvent, failure, event, viz>>

\* handleExport with the displayed value, text + interimText, in the blob.
HandleExport_Displayed ==
    /\ mounted
    /\ last' = "HandleExport"
    /\ download' = [made |-> TRUE, name |-> "transcript.txt",
                    content |-> text \o interimText]
    /\ UNCHANGED <<mounted, isListening, text, interimText, error, language,
                   recognitionRef, supported, eng, lastEvent, failure, event,
                   viz>>

\* handleExport: a blob of text, downloaded as transcript.txt through a
\* temporary link, then revoked.
HandleExport ==
    /\ mounted
    /\ last' = "HandleExport"
    /\ download' = [made |-> TRUE, name |-> "transcript.txt",
                    content |-> text]
    /\ UNCHANGED <<mounted, isListening, text, interimText, error, language,
                   recognitionRef, supported, eng, lastEvent, failure, event,
                   viz>>

SetLanguage(l) ==
    /\ mounted
    /\ l # language
    /\ last' = "SetLanguage"
    /\ download' = NoDownload
    /\ language' = l
    /\ UNCHANGED <<mounted, isListening, text, interimText, error,
                   recognitionRef, supported, eng, lastEvent, failure, event,
                   viz>>

\* Unmount: the cleanup of SpeechToText's effect and of the visualizer's.
Unmount ==
    /\ mounted
    /\ last' = "Unmount"
    /\ download' = NoDownload
    /\ mounted' = FALSE
    /\ eng' = IF recognitionRef.held THEN EngineStop(eng) ELSE eng
    /\ viz' = stopVisualizer(viz)
    /\ UNCHANGED <<isListening, text, interimText, error, language,
                   recognitionRef, supported, lastEvent, failure, event>>

-----------------------------------------------------------------------------
(* Engine events.  After unmount the state setters have no effect. *)

\* onstart that leaves the error message in place.
OnStart_KeepsError ==
    /\ eng = "starting"
    /\ viz.pending < MaxPending
    /\ last' = "OnStart"
    /\ download' = NoDownload
    /\ eng' = "running"
    /\ lastEvent' = "onStart"
    /\ IF mounted
       THEN /\ isListening' = TRUE
            /\ viz' = VisualizerEffect(viz, isListening, TRUE)
       ELSE UNCHANGED <<isListening, viz>>
    /\ UNCHANGED <<mounted, text, interimText, error, language,
                   recognitionRef, supported, failure, event>>

OnStart ==
    /\ eng = "starting"
    /\ viz.pending < MaxPending
    /\ last' = "OnStart"
    /\ download' = NoDownload
    /\ eng' = "running"
    /\ lastEvent' = "onStart"
    /\ IF mounted
       THEN /\ isListening' = TRUE
            /\ error' = ""
            /\ viz' = VisualizerEffect(viz, isListening, TRUE)
       ELSE UNCHANGED <<isListening, error, viz>>
    /\ UNCHANGED <<mounted, text, interimText, language, recognitionRef,
                   supported, failure, event>>

\* onresult with setText(finalTranscript) in place of the updater
\* prev => prev + finalTranscript.
OnResult_Replaces(e) ==
    /\ eng \in {"running", "stopping"}
    /\ e.resultIndex < Len(e.results)
    /\ Len(text \o onresult(e).final) <= MaxTextLen
    /\ last' = "OnResult"
    /\ download' = NoDownload
    /\ event' = e
    /\ IF mounted
       THEN /\ text' = onresult(e).final
            /\ interimText' = onresult(e).interim
       ELSE UNCHANGED <<text, interimText>>
    /\ UNCHANGED <<mounted, isListening, error, language, recognitionRef,
                   supported, eng, lastEvent, failure, viz>>

OnResult(e) ==
    /\ eng \in {"running", "stopping"}
    /\ e.resultIndex < Len(e.results)
    /\ Len(text \o onresult(e).final) <= MaxTextLen
    /\ last' = "OnResult"
    /\ download' = NoDownload
    /\ event' = e
    /\ IF mounted
       THEN /\ text' = text \o onresult(e).final
            /\ interimText' = onresult(e).interim
       ELSE UNCHANGED <<text, interimText>>
    /\ UNCHANGED <<mounted, isListening, error, language, recognitionRef,
                   supported, eng, lastEvent, failure, viz>>

\* onerror that also takes the session for ended.
OnError_EndsListening(code) ==
    /\ eng \in {"starting", "running", "stopping", "cancelled"}
    /\ last' = "OnError"
    /\ download' = NoDownload
    /\ eng' \in {eng, EngineStop(eng)}
    /\ IF mounted
       THEN /\ error' = ErrorMessage(code)
            /\ isListening' = FALSE
            /\ viz' = VisualizerEffect(viz, isListening, FALSE)
       ELSE UNCHANGED <<error, isListening, viz>>
    /\ UNCHANGED <<mounted, text, interimText, language, recognitionRef,
                   supported, lastEvent, failure, event>>

\* onerror: the engine may or may not go on to end the session.
OnError(code) ==
    /\ eng \in {"starting", "running", "stopping", "cancelled"}
    /\ last' = "OnError"
    /\ download' = NoDownload
    /\ eng' \in {eng, EngineStop(eng)}
    /\ IF mounted
       THEN error' = ErrorMessage(code)
       ELSE UNCHANGED error
    /\ UNCHANGED <<mounted, isListening, text, interimText, language,
                   recognitionRef, supported, lastEvent, failure, event, viz>>

\* onend that resets isListening only when stop() had been requested.
OnEnd_OnlyAfterStop ==
    /\ eng \in {"running", "stopping", "cancelled"}
    /\ last' = "OnEnd"
    /\ download' = NoDownload
    /\ eng' = "idle"
    /\ lastEvent' = "onEnd"
    /\ IF mounted /\ eng \in {"stopping", "cancelled"}
       THEN /\ isListening' = FALSE
            /\ viz' = VisualizerEffect(viz, isListening, FALSE)
       ELSE UNCHANGED <<isListening, viz>>
    /\ UNCHANGED <<mounted, text, interimText, error, language,
                   recognitionRef, supported, failure, event>>

\* onend: after stop(), after an error, or on the engine's own account.
OnEnd ==
    /\ eng \in {"running", "stopping", "cancelled"}
    /\ last' = "OnEnd"
    /\ download' = NoDownload
    /\ eng' = "idle"
    /\ lastEvent' = "onEnd"
    /\ IF mounted
       THEN /\ isListening' = FALSE
            /\ viz' = VisualizerEffect(viz, isListening, FALSE)
       ELSE UNCHANGED <<isListening, viz>>
    /\ UNCHANGED <<mounted, text, interimText, error, language,
                   recognitionRef, supported, failure, event>>

-----------------------------------------------------------------------------
(* Visualizer events *)

\* getUserMedia resolves: the rest of startVisualizer's try block runs.
GetUserMediaResolve ==
    /\ viz.pending > 0
    /\ Cardinality(viz.liveStreams) < MaxStreams
    /\ Cardinality(viz.pendingFrames) < MaxFrames
    /\ last' = "GetUserMediaResolve"
    /\ download' = NoDownload
    /\ LET stream == FreshId(viz.liveStreams)
           v1 == [viz EXCEPT !.pending = @ - 1,
                             !.liveStreams = @ \cup {stream},
                             !.streamRef = stream,
                             !.analyserReady = TRUE]
       IN  viz' = draw(v1, mounted)
    /\ UNCHANGED <<mounted, isListening, text, interimText, error, language,
                   recognitionRef, supported, eng, lastEvent, failure, event>>

\* A catch block that gives the session up when the microphone is refused.
GetUserMediaReject_EndsSession ==
    /\ viz.pending > 0
    /\ last' = "GetUserMediaReject"
    /\ download' = NoDownload
    /\ viz' = [viz EXCEPT !.pending = @ - 1]
    /\ isListening' = FALSE
    /\ UNCHANGED <<mounted, text, interimText, error, language,
                   recognitionRef, supported, eng, lastEvent, failure, event>>

\* getUserMedia rejects: the catch block logs to the console.
GetUserMediaReject ==
    /\ viz.pending > 0
    /\ last' = "GetUserMediaReject"
    /\ download' = NoDownload
    /\ viz' = [viz EXCEPT !.pending = @ - 1]
    /\ UNCHANGED <<mounted, isListening, text, interimText, error, language,
                   recognitionRef, supported, eng, lastEvent, failure, event>>

\* A scheduled animation frame fires and runs draw().
AnimationFrame(id) ==
    /\ id \in viz.pendingFrames
    /\ last' = "AnimationFrame"
    /\ download' = NoDownload
    /\ viz' = draw([viz EXCEPT !.pendingFrames = @ \ {id}], mounted)
    /\ UNCHANGED <<mounted, isListening, text, interimText, error, language,
                   recognitionRef, supported, eng, lastEvent, failure, event>>

-----------------------------------------------------------------------------

Next ==
    \/ StartListening
    \/ StopListening
    \/ HandleClear
    \/ HandleExport
    \/ \E l \in Languages : SetLanguage(l)
    \/ Unmount
    \/ OnStart
    \/ \E e \in SessionEvents : OnResult(e)
    \/ \E code \in ErrorCodes : OnError(code)
    \/ OnEnd
    \/ GetUserMediaResolve
    \/ GetUserMediaReject
    \/ \E id \in 1..MaxFrames : AnimationFrame(id)

Spec == Init /\ [][Next]_vars

-----------------------------------------------------------------------------
(* The commands as ControlButtons offers them: a disabled button cannot be  *)
(* clicked.                                                                 *)

ClickStart == ~isListening /\ StartListening

ClickStop == isListening /\ StopListening

ClickClear == (text # "" \/ interimText # "") /\ HandleClear

ClickExport == (text # "" \/ interimText # "") /\ HandleExport

NextControls ==
    \/ ClickStart
    \/ ClickStop
    \/ ClickClear
    \/ ClickExport
    \/ \E l \in Languages : SetLanguage(l)
    \/ Unmount
    \/ OnStart
    \/ \E e \in SessionEvents : OnResult(e)
    \/ \E code \in ErrorCodes : OnError(code)
    \/ OnEnd
    \/ GetUserMediaResolve
    \/ GetUserMediaReject
    \/ \E id \in 1..MaxFrames : AnimationFrame(id)

SpecControls == Init /\ [][NextControls]_vars

-----------------------------------------------------------------------------
(* The transcript accumulation on its own: a session that has started       *)
(* (start(), then onstart) receives result events of every shape.           *)

InitTranscript ==
    /\ mounted = TRUE
    /\ isListening = TRUE
    /\ text = ""
    /\ interimText = ""
    /\ error = ""
    /\ language = "en-US"
    /\ recognitionRef = [held |-> TRUE, lang |-> "en-US"]
    /\ supported = TRUE
    /\ eng = "running"
    /\ lastEvent = "onStart"
    /\ failure = FALSE
    /\ event = NoEvent
    /\ viz = VisualizerEffect(stopVisualizer(InitViz), FALSE, TRUE)
    /\ download = NoDownload
    /\ last = "OnStart"

NextTranscript == \E e \in Events : OnResult(e)

SpecTranscript == InitTranscript /\ [][NextTranscript]_vars

-----------------------------------------------------------------------------
(* Properties *)

RECURSIVE Concat(_)
Concat(strings) ==
    IF strings = <<>> THEN "" ELSE Head(strings) \o Concat(Tail(strings))

IsFinalResult(r) == r.isFinal

IsInterimResult(r) == ~r.isFinal

TranscriptsOf(rs) == [i \in 1..Len(rs) |-> rs[i].transcript]

\* The results of an event at index >= resultIndex, in index order.
Delivered(e) == SubSeq(e.results, e.resultIndex + 1, Len(e.results))

FinalTextOf(e) == Concat(TranscriptsOf(SelectSeq(Delivered(e), IsFinalResult)))

InterimTextOf(e) ==
    Concat(TranscriptsOf(SelectSeq(Delivered(e), IsInterimResult)))

Display == text \o interimText

SessionState == <<isListening, text, interimText, error, recognitionRef, eng,
                  failure>>

\* C1: every result event extends text by the transcripts of the final
\* results at index >= resultIndex, in index order, and sets interimText to
\* the non-final results at index >= resultIndex of that event alone; so
\* after N events text is the concatenation over the events in their order.
C1_ResultAccumulation ==
    [][last' = "OnResult" =>
          /\ text' = text \o FinalTextOf(event')
          /\ interimText' = InterimTextOf(event')]_vars

\* An event whose first result is final and below resultIndex, delivered on
\* top of earlier text and interim text.
C1_Witness ==
    /\ last = "OnResult"
    /\ event.resultIndex = 1
    /\ Len(event.results) = 2
    /\ event.results[1].isFinal
    /\ ~event.results[2].isFinal
    /\ text = "hellofoo"
    /\ interimText = "foo"

\* C2: isListening is true exactly when the last of onstart / onend the
\* engine fired is onstart; no command changes it.
C2_ListeningReflectsLastEvent ==
    mounted => (isListening <=> lastEvent = "onStart")

\* C3: when a permission request resolves after the visualizer was stopped,
\* the granted stream is stopped at once and no redraw is scheduled.
C3_GrantAfterStopTornDown ==
    [][(last' = "GetUserMediaResolve" /\ ~(mounted /\ isListening)) =>
          /\ viz'.liveStreams = viz.liveStreams
          /\ viz'.pendingFrames = viz.pendingFrames]_vars

\* C4: clear() empties text, interimText and error and leaves isListening,
\* the recognition handle and the engine's session as they were.
C4_ClearFrame ==
    [][last' = "HandleClear" =>
          /\ text' = "" /\ interimText' = "" /\ error' = ""
          /\ UNCHANGED <<isListening, recognitionRef, eng>>]_vars

\* clear() has acted while a session was running.
C4_Witness ==
    /\ last = "HandleClear"
    /\ isListening
    /\ eng = "running"
    /\ recognitionRef.held

EventA == [resultIndex |-> 0,
           results |-> <<[transcript |-> "hello", isFinal |-> FALSE]>>]

EventB == [resultIndex |-> 0,
           results |-> <<[transcript |-> "hello world", isFinal |-> TRUE]>>]

EventC == [resultIndex |-> 1,
           results |-> <<[transcript |-> "hello world", isFinal |-> TRUE],
                         [transcript |-> "foo", isFinal |-> FALSE]>>]

ExampleStep(displayAfterC) ==
    last' = "OnResult" =>
        /\ (text = "" /\ interimText = "" /\ event' = EventA)
              => Display' = "hello"
        /\ (text = "" /\ interimText = "hello" /\ event' = EventB)
              => (text' = "hello world" /\ interimText' = ""
                  /\ Display' = "hello world")
        /\ (text = "hello world" /\ interimText = "" /\ event' = EventC)
              => Display' = displayAfterC

\* C5 as stated: from an empty transcript, A (interim "hello"), B (final
\* "hello world"), C (interim "foo") display "hello", "hello world" and
\* "hello world foo".
C5_ExampleAsStated == [][ExampleStep("hello world foo")]_vars

\* C5, amended: the display after C is text + interimText with nothing put
\* between them, "hello worldfoo".
C5_ExampleAmended == [][ExampleStep("hello worldfoo")]_vars

\* The state after event C of the example.
C5_Witness ==
    /\ last = "OnResult"
    /\ event = EventC
    /\ text = "hello world"
    /\ interimText = "foo"

\* C6: stop() without a recognition handle (so whenever start() was never
\* called), and the visualizer's stop() run by it or by unmount, change
\* nothing and raise nothing.
C6_StopWithoutStartNoOp ==
    [][(last' \in {"StopListening", "Unmount"} /\ ~recognitionRef.held) =>
          UNCHANGED <<SessionState, viz>>]_vars

\* stop() has acted with no handle ever created.
C6_Witness ==
    /\ last = "StopListening"
    /\ ~recognitionRef.held
    /\ lastEvent = "none"
    /\ ~failure

\* C7: every onend leaves isListening false, whatever preceded it.
C7_EndResetsListening ==
    [][(last' = "OnEnd" /\ mounted) => ~isListening']_vars

\* onend has fired on a mounted controller after an engine error.
C7_Witness ==
    /\ last = "OnEnd"
    /\ mounted
    /\ error # ""
    /\ ~isListening

C9_TeardownReleasesAll ==
    ~mounted =>
        /\ recognitionRef.held => eng \in {"stopping", "cancelled", "idle"}
        /\ (viz.pending = 0 /\ viz.pendingFrames = {}) => viz.liveStreams = {}

\* C10: on a host without recognition every start() records the
\* unsupported-platform message, creates no handle, starts no engine session
\* and leaves isListening false.
C10_UnsupportedStaysDisabled ==
    [][(last' = "StartListening" /\ ~supported) =>
          /\ error' = UnsupportedMessage
          /\ ~recognitionRef'.held
          /\ eng' = "idle"
          /\ ~isListening'
          /\ ~failure']_vars

\* start() has acted on a host without recognition.
C10_Witness ==
    /\ last = "StartListening"
    /\ ~supported
    /\ error = UnsupportedMessage
    /\ recognitionRef = NoHandle

ErrorMessages == {ErrorMessage(code) : code \in ErrorCodes}

IsPrefix(a, b) == Len(a) <= Len(b) /\ SubSeq(b, 1, Len(a)) = a

VisualizerSteps == {"GetUserMediaResolve", "GetUserMediaReject",
                    "AnimationFrame"}

\* C11: error holds one message, last write wins: onerror and a start() on
\* an unsupported host overwrite it, clear() and onstart empty it, and every
\* other step leaves it as it was.
C11_ErrorLastWriteWins ==
    [][mounted =>
          /\ last' = "OnError" => error' \in ErrorMessages
          /\ (last' = "StartListening" /\ ~supported)
                => error' = UnsupportedMessage
          /\ last' \in {"HandleClear", "OnStart"} => error' = ""
          /\ (last' = "StartListening" /\ supported) => error' = error
          /\ last' \notin {"OnError", "StartListening", "HandleClear",
                           "OnStart"} => error' = error]_vars

\* onerror has recorded its message on a listening session.
C11_Witness ==
    /\ last = "OnError"
    /\ mounted
    /\ isListening
    /\ error = ErrorMessage("not-allowed")

\* C12: the exported file holds exactly text: no interim text, no framing.
C12_ExportIsText ==
    [][last' = "HandleExport" =>
          /\ download' = [made |-> TRUE, name |-> "transcript.txt",
                          content |-> text]
          /\ text' = text]_vars

\* An export made while both text and interim text were on display.
C12_Witness ==
    /\ last = "HandleExport"
    /\ download.made
    /\ download.content = "hello"
    /\ text = "hello"
    /\ interimText = "hello"

\* C13: the visualizer never has more than one stream with live tracks nor
\* more than one redraw callback pending.
C13_AtMostOneStreamAndFrame ==
    /\ Cardinality(viz.liveStreams) <= 1
    /\ Cardinality(viz.pendingFrames) <= 1

\* C14: with Start enabled iff isListening is false and Stop iff it is true,
\* no command throws: start() never reaches a handle whose session has
\* started and not ended.
C14_NoUnhandledFailure == ~failure

\* C15: a start() issued once the previous session is over opens a session
\* in the language configured at that moment.
C15_NextSessionUsesCurrentLanguage ==
    [][(last' = "StartListening" /\ eng = "idle" /\ supported) =>
          recognitionRef'.lang = language]_vars

\* C16: a language change while listening is rejected or stops the session;
\* the session never keeps running across an accepted change.
C16_LanguageChangeGuarded ==
    [][(mounted /\ isListening /\ language' # language) =>
          eng' \notin {"starting", "running"}]_vars

\* C17: the recognition handle changes only when start() creates one while
\* none is held; a held handle is reused by every later start().
C17_HandleReused ==
    [][recognitionRef' # recognitionRef =>
          /\ last' = "StartListening"
          /\ ~recognitionRef.held
          /\ recognitionRef' = [held |-> TRUE, lang |-> language]]_vars

\* start() has reused the handle created under another language.
C17_Witness ==
    /\ last = "StartListening"
    /\ recognitionRef.held
    /\ recognitionRef.lang # language
    /\ eng = "starting"

\* C18: onerror records a message and nothing else: isListening, text,
\* interimText and the handle are as before.
C18_ErrorOnlyRecords ==
    [][last' = "OnError" =>
          /\ UNCHANGED <<isListening, text, interimText, recognitionRef>>
          /\ mounted => error' \in ErrorMessages]_vars

\* onerror has fired on a listening session that holds transcript text and
\* goes on running.
C18_Witness ==
    /\ last = "OnError"
    /\ mounted
    /\ isListening
    /\ eng = "running"
    /\ text # ""
    /\ interimText # ""
    /\ error # ""

\* C19: except across clear(), the new text has the old text as a prefix,
\* and the visualizer's steps leave text unchanged.
C19_TextAppendOnly ==
    [][/\ last' # "HandleClear" => IsPrefix(text, text')
       /\ last' \in VisualizerSteps => text' = text]_vars

\* A result event has appended to text that was not empty.
C19_Witness ==
    /\ last = "OnResult"
    /\ mounted
    /\ event.results[1].isFinal
    /\ text = "hellohello"

\* The steps in which stopVisualizer runs: unmount, and the effect of
\* isListening turning false.
StopVisualizerRuns ==
    \/ last' = "Unmount"
    \/ last' \in {"StopListening", "OnEnd"} /\ mounted /\ isListening

\* C20: after the visualizer's stop() no stream and no redraw id is held,
\* the stream and the redraw that were held are stopped and cancelled, and
\* a second stop() changes nothing.
C20_StopVisualizerIdempotent ==
    [][StopVisualizerRuns =>
          /\ viz'.streamRef = 0
          /\ viz'.animationIdRef = 0
          /\ viz.streamRef # 0 => viz.streamRef \notin viz'.liveStreams
          /\ viz.animationIdRef # 0
                => viz.animationIdRef \notin viz'.pendingFrames
          /\ stopVisualizer(viz') = viz']_vars

\* stop() has run after a stream was granted and its redraw loop started.
C20_Witness ==
    /\ last = "StopListening"
    /\ viz.analyserReady
    /\ viz.streamRef = 0
    /\ viz.animationIdRef = 0
    /\ viz.liveStreams = {}
    /\ viz.pendingFrames = {}

\* C21: a rejected permission request is caught and an error message is
\* recorded; the visualizer gains no stream and no redraw, and isListening,
\* text and interimText are as before.
C21_RejectionRecorded ==
    [][(last' = "GetUserMediaReject" /\ mounted) =>
          /\ ~failure'
          /\ error' # ""
          /\ viz' = [viz EXCEPT !.pending = @ - 1]
          /\ UNCHANGED <<isListening, text, interimText>>]_vars

\* C22: while the controller is mounted and the engine has no session
\* (never started, or ended by onend), no interim text is on display.
C22_IdleHasNoInterim ==
    (mounted /\ eng = "idle") => interimText = ""

====
